---- MODULE Spec2Model ----
(***************************************************************************)
(* A model of package vala (src/validation.go, lines 1-298): the Checker   *)
(* functions and the Validation accumulator with its fluent methods.       *)
(*                                                                         *)
(* Go strings are TLA+ strings.  A Go value held in an interface{} is a    *)
(* record [k, s, n, isNil]: k its kind, s the text of a string, n the      *)
(* number of an int, the length of a slice or the address of a pointer.    *)
(* The model has one type per kind.                                        *)
(***************************************************************************)
EXTENDS Integers, Sequences, FiniteSets, TLC

VARIABLES
    heap,        \* the Validation objects allocated so far (a pointer is an index, 0 is nil)
    val,         \* per run, the handle the fluent chain holds now
    pc,          \* per run: "running", "aborted" (a Check*Panic panicked), "faulted" (a Checker panicked)
    ret,         \* per run, the error the last call of Check returned
    panicValue,  \* per run, the value the last panic carried
    retError,    \* per run, the caller's error variable handed to CheckSetErrorAndPanic
    batch,       \* the checkers given to the last call of Validate
    log,         \* the checkers the last call of Validate invoked, in order of invocation
    failures,    \* the messages of every checker that has failed so far, in order of invocation
    tiers,       \* how many times Validate was called
    lastOp,      \* the method called last
    chk,         \* the checker invoked on its own
    called,      \* whether chk has been invoked yet
    res,         \* what chk returned
    notRes,      \* what Not(chk) returned
    notNotRes,   \* what Not(Not(chk)) returned
    nce          \* one use of the nameOrErr parameter: its arguments and what came of it

vars == <<heap, val, pc, ret, panicValue, retError, batch, log, failures, tiers,
          lastOp, chk, called, res, notRes, notNotRes, nce>>

sessionVars == <<heap, val, pc, ret, panicValue, retError, batch, log, failures, tiers,
                 lastOp>>

checkerVars == <<chk, called, res, notRes, notNotRes, nce>>

-----------------------------------------------------------------------------
(* Bounds *)

\* The longest batch one call of Validate is given.
MaxBatch == 2

\* The most calls of Validate in one chain.
MaxTiers == 2

\* The deepest nesting of Not around a checker invoked on its own.
MaxNot == 1

\* The largest absolute value of the ints given to Lt, Le, Gt and Ge, and the
\* largest minLength and maxLength given to Len.
MaxN == 2

-----------------------------------------------------------------------------
(* Go values *)

NilV == [k |-> "nil", s |-> "", n |-> 0, isNil |-> TRUE]

StrV(s) == [k |-> "string", s |-> s, n |-> 0, isNil |-> FALSE]

IntV(n) == [k |-> "int", s |-> "", n |-> n, isNil |-> FALSE]

\* A slice of n zero ints, or the nil slice.
SliceV(isNil, n) == [k |-> "slice", s |-> "", n |-> n, isNil |-> isNil]

\* A pointer, channel, func or (empty) map: nil, or the one at address n.
RefV(k, isNil, n) == [k |-> k, s |-> "", n |-> n, isNil |-> isNil]

\* Kinds Go cannot compare with ==.
Uncomparable == {"slice", "map", "func"}

\* lhs == rhs on two interface{} values: "true", "false", or "panic" when both
\* hold the same uncomparable type.
InterfaceEq(lhs, rhs) ==
    IF lhs.k = "nil" \/ rhs.k = "nil" THEN (IF lhs.k = rhs.k THEN "true" ELSE "false")
    ELSE IF lhs.k # rhs.k THEN "false"
    ELSE IF lhs.k \in Uncomparable THEN "panic"
    ELSE IF lhs = rhs THEN "true" ELSE "false"

RECURSIVE Zeros(_)
Zeros(n) == IF n = 0 THEN "" ELSE IF n = 1 THEN "0" ELSE "0 " \o Zeros(n - 1)

\* fmt's %v of a value.
FmtV(v) ==
    CASE v.k = "nil"    -> "<nil>"
      [] v.k = "string" -> v.s
      [] v.k = "int"    -> ToString(v.n)
      [] v.k = "slice"  -> "[" \o Zeros(v.n) \o "]"
      [] v.k = "map"    -> "map[]"
      [] OTHER          -> IF v.isNil THEN "<nil>" ELSE "0xc" \o ToString(v.n)

-----------------------------------------------------------------------------
(* Checkers.  A Checker value is a record of what its closure captured;     *)
(* each operator below is the body of the closure, giving what one call    *)
(* returns: [panicked, pass, msg].                                         *)

Returns(pass, msg) == [panicked |-> FALSE, pass |-> pass, msg |-> msg]

Panics(what) == [panicked |-> TRUE, pass |-> FALSE, msg |-> what]

\* Not without the inversion.
Not_Same(r) ==
    IF r.panicked THEN r
    ELSE IF r.pass THEN Returns(TRUE, "")
    ELSE Returns(FALSE, "Not(" \o r.msg \o ")")

\* Not with a message of its own, the wrapped checker's message dropped.
Not_OwnCause(r) ==
    IF r.panicked THEN r
    ELSE IF r.pass THEN Returns(FALSE, "negated check unexpectedly passed")
    ELSE Returns(TRUE, "")

\* The closure Not(checker) returns, r being what checker() returned.
Not(r) ==
    IF r.panicked THEN r
    ELSE IF r.pass THEN Returns(FALSE, "Not(" \o r.msg \o ")")
    ELSE Returns(TRUE, "")

Eq(lhs, rhs, paramName) ==
    LET e == InterfaceEq(lhs, rhs) IN
    IF e = "panic" THEN Panics("runtime error: comparing uncomparable type")
    ELSE Returns(e = "true",
                 "Parameters were not equal: " \o paramName \o " " \o FmtV(lhs)
                     \o ", " \o FmtV(rhs))

Ne(lhs, rhs, paramName) ==
    LET e == InterfaceEq(lhs, rhs) IN
    IF e = "panic" THEN Panics("runtime error: comparing uncomparable type")
    ELSE Returns(e = "false",
                 "Parameters were equal: " \o paramName \o " " \o FmtV(lhs)
                     \o " == " \o FmtV(rhs))

\* NotNil with the test against nil alone: a typed nil passes.
NotNil_UntypedOnly(obtained, paramName) ==
    IF obtained.k = "nil" THEN Returns(FALSE, "Parameter was nil: " \o paramName)
    ELSE IF obtained.k = "string"
        THEN Returns(obtained.s # "", "Parameter was nil: " \o paramName)
    ELSE IF obtained.k \in {"chan", "func", "interface", "map", "ptr", "slice"}
        THEN Returns(TRUE, "Parameter was nil: " \o paramName)
    ELSE Panics("Vala is unable to check this type for nilability at this time.")

NotNil(obtained, paramName) ==
    IF obtained.k = "nil" THEN Returns(FALSE, "Parameter was nil: " \o paramName)
    ELSE IF obtained.k = "string"
        THEN Returns(obtained.s # "", "Parameter was nil: " \o paramName)
    ELSE IF obtained.k \in {"chan", "func", "interface", "map", "ptr", "slice"}
        THEN Returns(~obtained.isNil, "Parameter was nil: " \o paramName)
    ELSE Panics("Vala is unable to check this type for nilability at this time.")

NotEmpty(obtained, paramName) ==
    Returns(obtained # "", "Parameter is an empty string: " \o paramName)

\* reflect.ValueOf(param).Len(): the length, or -1 when reflect panics (param is
\* not an array, channel, map, slice or string).  Maps and channels are empty.
ReflectLen(param) ==
    CASE param.k = "string" -> Len(param.s)
      [] param.k = "slice"  -> param.n
      [] param.k \in {"map", "chan"} -> 0
      [] OTHER -> -1

\* Len with the upper end of the range left out.
Len_MaxExclusive(param, minLength, maxLength, paramName) ==
    LET len == ReflectLen(param) IN
    IF len < 0 THEN Panics("reflect: call of reflect.Value.Len on " \o param.k \o " Value")
    ELSE Returns(minLength <= len /\ len < maxLength,
                 "Parameter did not contain the correct number of elements: " \o paramName)

\* The closure of Len (LenOf here: Len is the length of a sequence).
LenOf(param, minLength, maxLength, paramName) ==
    LET len == ReflectLen(param) IN
    IF len < 0 THEN Panics("reflect: call of reflect.Value.Len on " \o param.k \o " Value")
    ELSE Returns(minLength <= len /\ len <= maxLength,
                 "Parameter did not contain the correct number of elements: " \o paramName)

\* Lt with <= for its comparison.
Lt_OrEqual(param, comparativeVal, paramName) ==
    IF param <= comparativeVal THEN Returns(TRUE, "")
    ELSE Returns(FALSE, "Parameter was not less than:  " \o paramName \o "("
                     \o ToString(param) \o ") >= " \o ToString(comparativeVal))

Lt(param, comparativeVal, paramName) ==
    IF param < comparativeVal THEN Returns(TRUE, "")
    ELSE Returns(FALSE, "Parameter was not less than:  " \o paramName \o "("
                     \o ToString(param) \o ") >= " \o ToString(comparativeVal))

Le(param, comparativeVal, paramName) ==
    IF param <= comparativeVal THEN Returns(TRUE, "")
    ELSE Returns(FALSE, "Parameter was not less than or equal to:  " \o paramName \o "("
                     \o ToString(param) \o ") > " \o ToString(comparativeVal))

Gt(param, comparativeVal, paramName) ==
    IF param > comparativeVal THEN Returns(TRUE, "")
    ELSE Returns(FALSE, "Parameter was not greater than:  " \o paramName \o "("
                     \o ToString(param) \o ") <= " \o ToString(comparativeVal))

Ge(param, comparativeVal, paramName) ==
    IF param >= comparativeVal THEN Returns(TRUE, "")
    ELSE Returns(FALSE, "Parameter was not greater than or equal to:  " \o paramName \o "("
                     \o ToString(param) \o ") < " \o ToString(comparativeVal))

\* A Checker of the caller's own, as the package documentation describes.
Custom(passes, err) == Returns(passes, err)

EqC(lhs, rhs, paramName) == [kind |-> "Eq", lhs |-> lhs, rhs |-> rhs, paramName |-> paramName]

NeC(lhs, rhs, paramName) == [kind |-> "Ne", lhs |-> lhs, rhs |-> rhs, paramName |-> paramName]

NotNilC(obtained, paramName) == [kind |-> "NotNil", obtained |-> obtained, paramName |-> paramName]

NotEmptyC(obtained, paramName) == [kind |-> "NotEmpty", obtained |-> obtained, paramName |-> paramName]

CustomC(passes, err) == [kind |-> "Custom", passes |-> passes, err |-> err]

NotC(checker) == [kind |-> "Not", checker |-> checker]

LenC(param, minLength, maxLength, paramName) ==
    [kind |-> "Len", param |-> param, minLength |-> minLength, maxLength |-> maxLength,
     paramName |-> paramName]

\* The Checker value of Lt, Le, Gt or Ge, kind naming which.
CmpC(kind, param, comparativeVal, paramName) ==
    [kind |-> kind, param |-> param, comparativeVal |-> comparativeVal,
     paramName |-> paramName]

\* checker(): one call of a Checker value.
RECURSIVE Invoke(_)
Invoke(c) ==
    CASE c.kind = "Eq"       -> Eq(c.lhs, c.rhs, c.paramName)
      [] c.kind = "Ne"       -> Ne(c.lhs, c.rhs, c.paramName)
      [] c.kind = "NotNil"   -> NotNil(c.obtained, c.paramName)
      [] c.kind = "NotEmpty" -> NotEmpty(c.obtained, c.paramName)
      [] c.kind = "Custom"   -> Custom(c.passes, c.err)
      [] c.kind = "Not"      -> Not(Invoke(c.checker))
      [] c.kind = "Len"      -> LenOf(c.param, c.minLength, c.maxLength, c.paramName)
      [] c.kind = "Lt"       -> Lt(c.param, c.comparativeVal, c.paramName)
      [] c.kind = "Le"       -> Le(c.param, c.comparativeVal, c.paramName)
      [] c.kind = "Gt"       -> Gt(c.param, c.comparativeVal, c.paramName)
      [] c.kind = "Ge"       -> Ge(c.param, c.comparativeVal, c.paramName)

-----------------------------------------------------------------------------
(* The accumulator *)

NilError == [isNil |-> TRUE, text |-> ""]

\* fmt.Errorf(text)
Errorf(text) == [isNil |-> FALSE, text |-> text]

\* strings.Join(elems, sep)
RECURSIVE Join(_, _)
Join(elems, sep) ==
    IF Len(elems) = 0 THEN ""
    ELSE IF Len(elems) = 1 THEN elems[1]
    ELSE elems[1] \o sep \o Join(Tail(elems), sep)

\* &Validation{make([]string, numErrors)}: the heap with the new object, and its address.
validationFactory(h, numErrors) ==
    [heap |-> Append(h, [Errors |-> [j \in 1..numErrors |-> ""]]), val |-> Len(h) + 1]

Begin == 0

constructErrorMessage(h, v) ==
    Errorf("parameter validation failed:\t" \o Join(h[v].Errors, "\n\t"))

\* Check without the test of len(val.Errors).
Check_NoLen(h, v) ==
    IF v = 0 THEN NilError
    ELSE constructErrorMessage(h, v)

Check(h, v) ==
    IF v = 0 \/ Len(h[v].Errors) <= 0 THEN NilError
    ELSE constructErrorMessage(h, v)

\* CheckAndPanic with len(val.Errors) <= 1 for its test.
CheckAndPanic_OffByOne(h, v) ==
    IF v = 0 \/ Len(h[v].Errors) <= 1
        THEN [panicked |-> FALSE, val |-> v, value |-> NilError]
    ELSE [panicked |-> TRUE, val |-> v, value |-> constructErrorMessage(h, v)]

\* What a call does: it panicked with value, or returned val.
CheckAndPanic(h, v) ==
    IF v = 0 \/ Len(h[v].Errors) <= 0
        THEN [panicked |-> FALSE, val |-> v, value |-> NilError]
    ELSE [panicked |-> TRUE, val |-> v, value |-> constructErrorMessage(h, v)]

\* CheckSetErrorAndPanic that panics without the assignment to *retError.
CheckSetErrorAndPanic_NoSet(h, v, slot) ==
    IF v = 0 \/ Len(h[v].Errors) <= 0
        THEN [panicked |-> FALSE, val |-> v, value |-> NilError, retError |-> slot]
    ELSE [panicked |-> TRUE, val |-> v, value |-> constructErrorMessage(h, v),
          retError |-> slot]

\* slot is what the caller's error variable holds when the call is made;
\* retError is what it holds afterwards.
CheckSetErrorAndPanic(h, v, slot) ==
    IF v = 0 \/ Len(h[v].Errors) <= 0
        THEN [panicked |-> FALSE, val |-> v, value |-> NilError, retError |-> slot]
    ELSE LET e == constructErrorMessage(h, v) IN
         [panicked |-> TRUE, val |-> v, value |-> e, retError |-> e]

\* The loop of Validate with a break after the first failure.
RECURSIVE ValidateFrom_ShortCircuit(_, _, _, _, _)
ValidateFrom_ShortCircuit(h, v, checkers, i, invoked) ==
    IF i > Len(checkers)
        THEN [heap |-> h, val |-> v, invoked |-> invoked, panicked |-> FALSE, value |-> ""]
    ELSE LET r   == Invoke(checkers[i])
             inv == Append(invoked, checkers[i])
         IN
         IF r.panicked
             THEN [heap |-> h, val |-> v, invoked |-> inv, panicked |-> TRUE, value |-> r.msg]
         ELSE IF ~r.pass
             THEN LET a  == IF v = 0 THEN validationFactory(h, 1) ELSE [heap |-> h, val |-> v]
                      h2 == [a.heap EXCEPT ![a.val].Errors = Append(@, r.msg)]
                  IN  [heap |-> h2, val |-> a.val, invoked |-> inv, panicked |-> FALSE,
                       value |-> ""]
         ELSE ValidateFrom_ShortCircuit(h, v, checkers, i + 1, inv)

\* The loop of Validate recovering from a checker's panic: the panic is
\* recorded as a failure and the loop goes on.
RECURSIVE ValidateFrom_Recovering(_, _, _, _, _)
ValidateFrom_Recovering(h, v, checkers, i, invoked) ==
    IF i > Len(checkers)
        THEN [heap |-> h, val |-> v, invoked |-> invoked, panicked |-> FALSE, value |-> ""]
    ELSE LET r   == Invoke(checkers[i])
             inv == Append(invoked, checkers[i])
         IN
         IF r.panicked \/ ~r.pass
             THEN LET a  == IF v = 0 THEN validationFactory(h, 1) ELSE [heap |-> h, val |-> v]
                      h2 == [a.heap EXCEPT ![a.val].Errors = Append(@, r.msg)]
                  IN  ValidateFrom_Recovering(h2, a.val, checkers, i + 1, inv)
         ELSE ValidateFrom_Recovering(h, v, checkers, i + 1, inv)

\* The loop of Validate without the test of val == nil: every failure goes
\* into a Validation made for it.
RECURSIVE ValidateFrom_AlwaysNew(_, _, _, _, _)
ValidateFrom_AlwaysNew(h, v, checkers, i, invoked) ==
    IF i > Len(checkers)
        THEN [heap |-> h, val |-> v, invoked |-> invoked, panicked |-> FALSE, value |-> ""]
    ELSE LET r   == Invoke(checkers[i])
             inv == Append(invoked, checkers[i])
         IN
         IF r.panicked
             THEN [heap |-> h, val |-> v, invoked |-> inv, panicked |-> TRUE, value |-> r.msg]
         ELSE IF ~r.pass
             THEN LET a  == validationFactory(h, 1)
                      h2 == [a.heap EXCEPT ![a.val].Errors = Append(@, r.msg)]
                  IN  ValidateFrom_AlwaysNew(h2, a.val, checkers, i + 1, inv)
         ELSE ValidateFrom_AlwaysNew(h, v, checkers, i + 1, inv)

\* The loop of Validate storing a failure in place of the recorded ones.
RECURSIVE ValidateFrom_Overwrite(_, _, _, _, _)
ValidateFrom_Overwrite(h, v, checkers, i, invoked) ==
    IF i > Len(checkers)
        THEN [heap |-> h, val |-> v, invoked |-> invoked, panicked |-> FALSE, value |-> ""]
    ELSE LET r   == Invoke(checkers[i])
             inv == Append(invoked, checkers[i])
         IN
         IF r.panicked
             THEN [heap |-> h, val |-> v, invoked |-> inv, panicked |-> TRUE, value |-> r.msg]
         ELSE IF ~r.pass
             THEN LET a  == IF v = 0 THEN validationFactory(h, 1) ELSE [heap |-> h, val |-> v]
                      h2 == [a.heap EXCEPT ![a.val].Errors = <<r.msg>>]
                  IN  ValidateFrom_Overwrite(h2, a.val, checkers, i + 1, inv)
         ELSE ValidateFrom_Overwrite(h, v, checkers, i + 1, inv)

\* The loop of Validate from checkers[i] on, invoked being the checkers called
\* before: the heap and the local val it ends with, the checkers called, and
\* whether one of them panicked (with what value).
RECURSIVE ValidateFrom(_, _, _, _, _)
ValidateFrom(h, v, checkers, i, invoked) ==
    IF i > Len(checkers)
        THEN [heap |-> h, val |-> v, invoked |-> invoked, panicked |-> FALSE, value |-> ""]
    ELSE LET r   == Invoke(checkers[i])
             inv == Append(invoked, checkers[i])
         IN
         IF r.panicked
             THEN [heap |-> h, val |-> v, invoked |-> inv, panicked |-> TRUE, value |-> r.msg]
         ELSE IF ~r.pass
             THEN LET a  == IF v = 0 THEN validationFactory(h, 1) ELSE [heap |-> h, val |-> v]
                      h2 == [a.heap EXCEPT ![a.val].Errors = Append(@, r.msg)]
                  IN  ValidateFrom(h2, a.val, checkers, i + 1, inv)
         ELSE ValidateFrom(h, v, checkers, i + 1, inv)

Validate(h, v, checkers) == ValidateFrom(h, v, checkers, 1, <<>>)

-----------------------------------------------------------------------------
(* The callers.  Two runs of one caller are followed side by side: the run  *)
(* "Begin" starts from the handle Begin() returns, the run "Literal" from  *)
(* &Validation{[]string{}}; every call is made in both, with the same      *)
(* arguments.  A run that panicked makes no further call.                  *)

Starts == {"Begin", "Literal"}

\* The checkers the callers put into batches: one that passes, two that fail,
\* one that panics.
SessionCheckers ==
    { NotNilC(StrV("foo"), "c"), NotNilC(NilV, "a"), NotNilC(NilV, "b"),
      NotNilC(IntV(0), "zeroInt") }

Batches == UNION { [1..n -> SessionCheckers] : n \in 0..MaxBatch }

\* The messages of the checkers of cs that fail, in the order of cs.
FailedMsgs(cs) ==
    LET f == SelectSeq(cs, LAMBDA c : ~Invoke(c).panicked /\ ~Invoke(c).pass)
    IN  [i \in 1..Len(f) |-> Invoke(f[i]).msg]

Errors(s) == IF val[s] = 0 THEN <<>> ELSE heap[val[s]].Errors

Running(s) == pc[s] = "running"

SessionInit ==
    /\ heap = << [Errors |-> <<>>] >>
    /\ val = [s \in Starts |-> IF s = "Begin" THEN Begin ELSE 1]
    /\ pc = [s \in Starts |-> "running"]
    /\ ret = [s \in Starts |-> NilError]
    /\ panicValue = [s \in Starts |-> NilError]
    /\ \E e \in {NilError, Errorf("an earlier error")} : retError = [s \in Starts |-> e]
    /\ batch = <<>>
    /\ log = [s \in Starts |-> <<>>]
    /\ failures = [s \in Starts |-> <<>>]
    /\ tiers = 0
    /\ lastOp = "Begin"

Called(op) ==
    /\ \E s \in Starts : Running(s)
    /\ lastOp' = op

\* What Validate does in run s on heap h: nothing when the run has ended.
ValidateIn(s, h, checkers) ==
    IF Running(s) THEN Validate(h, val[s], checkers)
    ELSE [heap |-> h, val |-> val[s], invoked |-> <<>>, panicked |-> FALSE, value |-> ""]

\* val.Validate(checkers...) in each run that is still running.
ValidateStep(checkers) ==
    /\ tiers < MaxTiers
    /\ Called("Validate")
    /\ \E rB \in {ValidateIn("Begin", heap, checkers)} :
       \E rL \in {ValidateIn("Literal", rB.heap, checkers)} :
       LET r == [s \in Starts |-> IF s = "Begin" THEN rB ELSE rL]
       IN  /\ heap' = rL.heap
           /\ val' = [s \in Starts |-> IF r[s].panicked THEN val[s] ELSE r[s].val]
           /\ pc' = [s \in Starts |-> IF Running(s) /\ r[s].panicked THEN "faulted" ELSE pc[s]]
           /\ panicValue' = [s \in Starts |->
                  IF Running(s) /\ r[s].panicked THEN Errorf(r[s].value) ELSE NilError]
           /\ log' = [s \in Starts |->
                  IF Running(s) THEN r[s].invoked ELSE log[s]]
           /\ failures' = [s \in Starts |->
                  IF Running(s) THEN failures[s] \o FailedMsgs(r[s].invoked)
                  ELSE failures[s]]
    /\ batch' = checkers
    /\ tiers' = tiers + 1
    /\ ret' = [s \in Starts |-> NilError]
    /\ UNCHANGED <<retError, checkerVars>>

\* val.Validate(checkers...) as a statement: what it returns is dropped, and
\* the caller goes on with the handle it had.
ValidateKeptStep(checkers) ==
    /\ tiers < MaxTiers
    /\ Called("Validate")
    /\ \E rB \in {ValidateIn("Begin", heap, checkers)} :
       \E rL \in {ValidateIn("Literal", rB.heap, checkers)} :
       LET r == [s \in Starts |-> IF s = "Begin" THEN rB ELSE rL]
       IN  /\ heap' = rL.heap
           /\ pc' = [s \in Starts |-> IF Running(s) /\ r[s].panicked THEN "faulted" ELSE pc[s]]
           /\ panicValue' = [s \in Starts |->
                  IF Running(s) /\ r[s].panicked THEN Errorf(r[s].value) ELSE NilError]
           /\ log' = [s \in Starts |->
                  IF Running(s) THEN r[s].invoked ELSE log[s]]
           /\ failures' = [s \in Starts |->
                  IF Running(s) THEN failures[s] \o FailedMsgs(r[s].invoked)
                  ELSE failures[s]]
    /\ batch' = checkers
    /\ tiers' = tiers + 1
    /\ ret' = [s \in Starts |-> NilError]
    /\ UNCHANGED <<val, retError, checkerVars>>

\* val.Check()
CheckStep ==
    /\ Called("Check")
    /\ ret' = [s \in Starts |-> IF Running(s) THEN Check(heap, val[s]) ELSE NilError]
    /\ panicValue' = [s \in Starts |-> NilError]
    /\ UNCHANGED <<heap, val, pc, retError, batch, log, failures, tiers, checkerVars>>

\* val.CheckAndPanic()
CheckAndPanicStep ==
    /\ Called("CheckAndPanic")
    /\ LET r == [s \in Starts |-> CheckAndPanic(heap, val[s])]
       IN  /\ val' = [s \in Starts |-> IF Running(s) /\ ~r[s].panicked THEN r[s].val ELSE val[s]]
           /\ pc' = [s \in Starts |-> IF Running(s) /\ r[s].panicked THEN "aborted" ELSE pc[s]]
           /\ panicValue' = [s \in Starts |->
                  IF Running(s) /\ r[s].panicked THEN r[s].value ELSE NilError]
    /\ ret' = [s \in Starts |-> NilError]
    /\ UNCHANGED <<heap, retError, batch, log, failures, tiers, checkerVars>>

\* val.CheckSetErrorAndPanic(&retError)
CheckSetErrorAndPanicStep ==
    /\ Called("CheckSetErrorAndPanic")
    /\ LET r == [s \in Starts |-> CheckSetErrorAndPanic(heap, val[s], retError[s])]
       IN  /\ val' = [s \in Starts |-> IF Running(s) /\ ~r[s].panicked THEN r[s].val ELSE val[s]]
           /\ pc' = [s \in Starts |-> IF Running(s) /\ r[s].panicked THEN "aborted" ELSE pc[s]]
           /\ panicValue' = [s \in Starts |->
                  IF Running(s) /\ r[s].panicked THEN r[s].value ELSE NilError]
           /\ retError' = [s \in Starts |-> IF Running(s) THEN r[s].retError ELSE retError[s]]
    /\ ret' = [s \in Starts |-> NilError]
    /\ UNCHANGED <<heap, batch, log, failures, tiers, checkerVars>>

-----------------------------------------------------------------------------
(* Checkers invoked on their own *)

Values ==
    { NilV, StrV(""), StrV("foo"), StrV("bar"), IntV(0), IntV(1),
      SliceV(TRUE, 0), SliceV(FALSE, 0), SliceV(FALSE, 2),
      RefV("ptr", TRUE, 0), RefV("ptr", FALSE, 1), RefV("map", TRUE, 0),
      RefV("map", FALSE, 1), RefV("chan", TRUE, 0), RefV("func", TRUE, 0),
      RefV("chan", FALSE, 2), RefV("func", FALSE, 3) }

\* The ints given to Lt, Le, Gt and Ge.
Ints == (0 - MaxN)..MaxN

\* The params given to Len: what Values holds, and a slice of every length up
\* to one more than the largest maxLength.
LenParams == Values \cup { SliceV(FALSE, n) : n \in 0..(MaxN + 1) }

BaseCheckers ==
    { EqC(l, r, "foo") : l \in Values, r \in Values }
        \cup { NeC(l, r, "foo") : l \in Values, r \in Values }
        \cup { NotNilC(v, p) : v \in Values, p \in {"a", "b"} }
        \cup { NotEmptyC(s, "tmpA") : s \in {"", "abc"} }
        \cup { LenC(v, lo, hi, "tmpC") : v \in LenParams, lo \in 0..MaxN, hi \in 0..MaxN }
        \cup { CmpC(k, a, b, "tmpA") : k \in {"Lt", "Le", "Gt", "Ge"}, a \in Ints, b \in Ints }
        \cup { CustomC(b, e) : b \in BOOLEAN, e \in {"", "The given author was not one of the collaborators for this report."} }

\* The checkers with at most n Not around a base checker.
RECURSIVE Nested(_)
Nested(n) ==
    IF n = 0 THEN BaseCheckers
    ELSE Nested(n - 1) \cup { NotC(c) : c \in Nested(n - 1) }

NotCalled == Returns(FALSE, "")

CheckerInit ==
    /\ chk \in Nested(MaxNot)
    /\ called = FALSE
    /\ res = NotCalled
    /\ notRes = NotCalled
    /\ notNotRes = NotCalled

\* In the accumulator's specification no checker is invoked on its own.
CheckerIdle ==
    /\ chk = NotNilC(NilV, "a")
    /\ called = FALSE
    /\ res = NotCalled
    /\ notRes = NotCalled
    /\ notNotRes = NotCalled

\* chk(), Not(chk)() and Not(Not(chk))()
CallChecker ==
    /\ ~called
    /\ called' = TRUE
    /\ res' = Invoke(chk)
    /\ notRes' = Invoke(NotC(chk))
    /\ notNotRes' = Invoke(NotC(NotC(chk)))
    /\ UNCHANGED <<chk, nce, sessionVars>>

-----------------------------------------------------------------------------
(* The nameOrErr parameter of the descriptor-returning checkers.  Their     *)
(* tests are under src/ (TestNewCheckerError, TestCheckerErrorError,       *)
(* TestNotEmpty); newCheckerError and CheckerError are not, and are        *)
(* written here from the specification and those tests.  A cause is the    *)
(* text of its error; a *CheckerError built by the caller has an address   *)
(* addr > 0, one built by newCheckerError has addr 0.                       *)

ErrNotEmpty == "arg != \"\""

ErrNotNil == "arg != nil"

\* The text of ErrNe is not shown by the tests; only that it differs from the others matters.
ErrNe == "arg1 != arg2"

myErr == "My custom error"

NilCheckerError == [isNil |-> TRUE, Name |-> "", Err |-> "", addr |-> 0]

\* &CheckerError{Name, Err}
CheckerError(Name, Err, addr) == [isNil |-> FALSE, Name |-> Name, Err |-> Err, addr |-> addr]

\* (*CheckerError).Error()
CheckerErrorText(e) == IF e.Name # "" THEN e.Name \o ": " \o e.Err ELSE e.Err

AsName(name) == [tag |-> "string", name |-> name, err |-> "", d |-> NilCheckerError]

AsCause(err) == [tag |-> "error", name |-> "", err |-> err, d |-> NilCheckerError]

AsDescriptor(d) == [tag |-> "descriptor", name |-> "", err |-> "", d |-> d]

\* newCheckerError with a raw cause taken for nothing: the default cause is kept.
newCheckerError_DefaultOnly(nameOrErr, def) ==
    CASE nameOrErr.tag = "string"     -> CheckerError(nameOrErr.name, def, 0)
      [] nameOrErr.tag = "descriptor" -> nameOrErr.d
      [] nameOrErr.tag = "error"      -> CheckerError("", def, 0)

newCheckerError(nameOrErr, def) ==
    CASE nameOrErr.tag = "string"     -> CheckerError(nameOrErr.name, def, 0)
      [] nameOrErr.tag = "descriptor" -> nameOrErr.d
      [] nameOrErr.tag = "error"      -> CheckerError("", nameOrErr.err, 0)

\* The closure of NotEmpty(obtained, nameOrErr): nil, or the failure.
NotEmptyDescriptor(obtained, nameOrErr) ==
    IF obtained # "" THEN NilCheckerError ELSE newCheckerError(nameOrErr, ErrNotEmpty)

NameOrErrs ==
    { AsName(n) : n \in {"Test", "tmpA"} }
        \cup { AsCause(c) : c \in {myErr, ErrNotNil, ErrNe} }
        \cup { AsDescriptor(CheckerError(n, c, 1)) : n \in {"", "Test"}, c \in {ErrNe, myErr} }

Defaults == {ErrNotEmpty, ErrNotNil, ErrNe}

NceOf(nameOrErr, def, obtained, made, cerr, failure) ==
    [nameOrErr |-> nameOrErr, def |-> def, obtained |-> obtained, made |-> made,
     cerr |-> cerr, failure |-> failure]

\* In the other specifications nameOrErr is not used.
DescriptorIdle ==
    nce = NceOf(AsName("Test"), ErrNotEmpty, "", FALSE, NilCheckerError, NilCheckerError)

DescriptorInit ==
    \E n \in NameOrErrs, def \in Defaults, obtained \in {"", "abc"} :
        nce = NceOf(n, def, obtained, FALSE, NilCheckerError, NilCheckerError)

\* newCheckerError(nameOrErr, def) and NotEmpty(obtained, nameOrErr)()
CallNewCheckerError ==
    /\ ~nce.made
    /\ nce' = [nce EXCEPT !.made = TRUE,
                          !.cerr = newCheckerError(nce.nameOrErr, nce.def),
                          !.failure = NotEmptyDescriptor(nce.obtained, nce.nameOrErr)]
    /\ UNCHANGED <<chk, called, res, notRes, notNotRes, sessionVars>>

-----------------------------------------------------------------------------
(* Specifications *)

Init == SessionInit /\ CheckerIdle /\ DescriptorIdle

Next ==
    \/ \E checkers \in Batches : ValidateStep(checkers)
    \/ CheckStep
    \/ CheckAndPanicStep
    \/ CheckSetErrorAndPanicStep

Spec == Init /\ [][Next]_vars

CheckerNext == CallChecker

CheckerSpecInit == SessionInit /\ CheckerInit /\ DescriptorIdle

CheckerSpec == CheckerSpecInit /\ [][CheckerNext]_vars

\* A caller that never takes what Validate returns.
KeptNext ==
    \/ \E checkers \in Batches : ValidateKeptStep(checkers)
    \/ CheckStep

KeptSpec == Init /\ [][KeptNext]_vars

DescriptorNext == CallNewCheckerError

DescriptorSpecInit == SessionInit /\ CheckerIdle /\ DescriptorInit

DescriptorSpec == DescriptorSpecInit /\ [][DescriptorNext]_vars

-----------------------------------------------------------------------------
(* Properties of the accumulator, under Spec *)

Holding(s) == Len(Errors(s)) > 0

\* Whether t occurs in s.
Contains(s, t) ==
    \E i \in 1..(Len(s) + 1) : \E j \in 0..Len(s) : SubSeq(s, i, j) = t

\* C1: Begin().Validate(batch).Check() leaves in Validation.Errors exactly one
\* entry per failing check of the batch, in the order of the batch.
C1_OneEntryPerFailingCheck ==
    (tiers = 1 /\ lastOp = "Check" /\ Running("Begin"))
        => Errors("Begin") = FailedMsgs(batch)

\* C2: when Validate has returned, it has invoked every checker of the batch
\* exactly once and in argument order, whether or not some of them failed; and
\* no error is reported, returned or panicked with, before that.
C2_EveryCheckerInvokedInOrder ==
    \A s \in Starts :
        /\ (lastOp = "Validate" /\ Running(s)) => log[s] = batch
        /\ (~ret[s].isNil \/ pc[s] = "aborted") => log[s] = batch

C2_Witness ==
    /\ lastOp = "Validate"
    /\ Running("Begin")
    /\ Len(batch) = 2
    /\ ~Invoke(batch[1]).pass
    /\ Invoke(batch[2]).pass
    /\ log["Begin"] = batch

\* C3: in Validate(batch1).CheckAndPanic().Validate(batch2), the second
\* Validate is reached only if no check of batch1 failed, and then batch2 is
\* executed and the failures recorded are exactly those of batch2.
C3_Tiering ==
    [][(tiers = 1 /\ lastOp = "CheckAndPanic" /\ lastOp' = "Validate" /\ Running("Begin"))
          => /\ failures["Begin"] = <<>>
             /\ Running("Begin")'
                  => /\ log'["Begin"] = batch'
                     /\ Errors("Begin")' = FailedMsgs(batch')]_vars

\* C4: CheckAndPanic on an empty handle returns the handle unchanged and does
\* not panic; on a holding handle it panics, with the error Check() returns
\* on that handle.
C4_CheckAndPanic ==
    [][lastOp' = "CheckAndPanic"
          => \A s \in Starts : Running(s)
                => IF ~Holding(s)
                       THEN /\ val'[s] = val[s]
                            /\ heap' = heap
                            /\ pc'[s] = "running"
                            /\ panicValue'[s] = NilError
                   ELSE /\ pc'[s] = "aborted"
                        /\ ~panicValue'[s].isNil
                        /\ panicValue'[s] = Check(heap, val[s])]_vars

C4_Witness ==
    /\ lastOp = "CheckAndPanic"
    /\ pc["Begin"] = "aborted"
    /\ Len(failures["Begin"]) = 1
    /\ panicValue["Begin"] = Check(heap, val["Begin"])

\* C5: CheckSetErrorAndPanic(&retError) on a holding handle leaves in retError
\* the error it panics with, which is not nil; on an empty handle retError
\* keeps its value, there is no panic and the handle is returned unchanged.
C5_CheckSetErrorAndPanic ==
    [][lastOp' = "CheckSetErrorAndPanic"
          => \A s \in Starts : Running(s)
                => IF ~Holding(s)
                       THEN /\ val'[s] = val[s]
                            /\ heap' = heap
                            /\ pc'[s] = "running"
                            /\ panicValue'[s] = NilError
                            /\ retError'[s] = retError[s]
                   ELSE /\ pc'[s] = "aborted"
                        /\ ~retError'[s].isNil
                        /\ retError'[s] = panicValue'[s]
                        /\ retError'[s] = Check(heap, val[s])]_vars

C5_Witness ==
    /\ lastOp = "CheckSetErrorAndPanic"
    /\ pc["Begin"] = "aborted"
    /\ ~retError["Begin"].isNil
    /\ retError["Begin"] = panicValue["Begin"]
    /\ Len(failures["Begin"]) = 2

\* C6: as long as no check has failed, however many batches were run, Check()
\* returns nil and neither CheckAndPanic nor CheckSetErrorAndPanic has panicked.
C6_EmptinessIsIdempotent ==
    \A s \in Starts :
        failures[s] = <<>>
            => /\ Check(heap, val[s]).isNil
               /\ ret[s].isNil
               /\ pc[s] # "aborted"

C6_Witness ==
    /\ tiers = 2
    /\ failures["Begin"] = <<>>
    /\ failures["Literal"] = <<>>
    /\ Len(batch) = 2
    /\ log["Begin"] = batch
    /\ lastOp = "CheckSetErrorAndPanic"
    /\ Running("Begin")
    /\ Running("Literal")

\* C7: the nil handle and a Validation with no recorded failure cannot be told
\* apart: after the same calls, the recorded failures, the result of Check()
\* and whether a panic happened are the same.
C7_NilAndEmptyAlike ==
    /\ Errors("Begin") = Errors("Literal")
    /\ Check(heap, val["Begin"]) = Check(heap, val["Literal"])
    /\ ret["Begin"] = ret["Literal"]
    /\ pc["Begin"] = pc["Literal"]
    /\ panicValue["Begin"] = panicValue["Literal"]

\* C8: Check() on a holding handle returns an error whose text is the header
\* followed by the messages of the checks that failed, in order, and no
\* other entry.
C8_MessageListsTheFailures ==
    (lastOp = "Check" /\ Running("Begin") /\ Holding("Begin"))
        => /\ ~ret["Begin"].isNil
           /\ ret["Begin"].text
                  = "parameter validation failed:" \o "\t" \o Join(failures["Begin"], "\n\t")

-----------------------------------------------------------------------------
(* Properties of Not, under CheckerSpec *)

\* C9: Not(C) passes exactly when C fails and fails exactly when C passes
\* (and panics exactly when C panics).
C9_NotInverts ==
    called
        => /\ notRes.panicked = res.panicked
           /\ ~res.panicked => (notRes.pass <=> ~res.pass)

C9_Witness ==
    /\ called
    /\ chk.kind = "Eq"
    /\ ~res.panicked
    /\ res.pass
    /\ ~notRes.panicked
    /\ ~notRes.pass

\* C10 as the specification states it: Not(Not(C)) fails iff C fails, and the
\* failure Not(C) produces when C passes does not carry C's message.
C10_NegationOwnCause ==
    (called /\ ~res.panicked)
        => /\ notNotRes.pass <=> res.pass
           /\ (res.pass /\ res.msg # "") => ~Contains(notRes.msg, res.msg)

\* C10: Not(Not(C)) fails iff C fails; when C passes, the failure of Not(C)
\* carries "Not(<C's message>)"; when C fails, Not(C) passes with the empty
\* message, so that the failure of Not(Not(C)) carries "Not()".
C10_NegationWrapsMessage ==
    (called /\ ~res.panicked)
        => /\ notNotRes.pass <=> res.pass
           /\ res.pass => (~notRes.pass /\ notRes.msg = "Not(" \o res.msg \o ")")
           /\ ~res.pass => (notRes = Returns(TRUE, "") /\ notNotRes.msg = "Not()")

C10_Witness ==
    /\ called
    /\ chk.kind = "NotNil"
    /\ res.pass
    /\ res.msg # ""
    /\ notRes.msg = "Not(" \o res.msg \o ")"
    /\ notNotRes.pass

-----------------------------------------------------------------------------
(* Properties of the built-in checkers, under CheckerSpec *)

BuiltIn == {"Eq", "Ne", "NotNil", "Len", "Lt", "Le", "Gt", "Ge", "NotEmpty"}

\* C11: a built-in checker returns a non-empty message, naming the parameter,
\* also when it passes, so that the message of a failing Not(C) is
\* "Not(<C's message>)" around a non-empty message.
C11_MessageAlsoOnSuccess ==
    (called /\ chk.kind \in BuiltIn /\ ~res.panicked)
        => /\ res.msg # ""
           /\ Contains(res.msg, chk.paramName)
           /\ res.pass => (notRes.msg = "Not(" \o res.msg \o ")" /\ notRes.msg # "Not()")

\* C12: NotNil fails on the untyped nil, on the empty string and on a nil
\* channel, func, map, pointer or slice; it passes on a non-empty string and
\* on a non-nil value of those kinds; on any other kind it panics.
C12_NotNil ==
    (called /\ chk.kind = "NotNil")
        => LET v == chk.obtained IN
           CASE v.k = "nil"    -> ~res.panicked /\ ~res.pass
             [] v.k = "string" -> ~res.panicked /\ (res.pass <=> v.s # "")
             [] v.k \in {"chan", "func", "map", "ptr", "slice"}
                               -> ~res.panicked /\ (res.pass <=> ~v.isNil)
             [] OTHER          -> res.panicked

C12_Witness ==
    /\ called
    /\ chk.kind = "NotNil"
    /\ chk.obtained = SliceV(TRUE, 0)
    /\ ~res.panicked
    /\ ~res.pass

\* C13: Len passes exactly when minLength <= length <= maxLength, both ends
\* included.
C13_LenInclusive ==
    (called /\ chk.kind = "Len" /\ ~res.panicked)
        => (res.pass <=> (chk.minLength <= ReflectLen(chk.param)
                             /\ ReflectLen(chk.param) <= chk.maxLength))

C13_Witness ==
    /\ called
    /\ chk.kind = "Len"
    /\ chk.param = SliceV(FALSE, 2)
    /\ chk.minLength = 1
    /\ chk.maxLength = 2
    /\ ~res.panicked
    /\ res.pass

-----------------------------------------------------------------------------
(* Properties of nameOrErr, under DescriptorSpec *)

-----------------------------------------------------------------------------
(* Frame properties of the accumulator, under Spec *)

\* C16: on a present handle the list of recorded failures only grows at its
\* end.  Check, CheckAndPanic and CheckSetErrorAndPanic leave it as it is;
\* Validate keeps the handle and the entries recorded before, in their places,
\* and adds the messages of the failing checkers it invoked, in their order.
\* So a handle that holds a failure still holds one after any step, and Check
\* on it does not return nil.
C16_AppendOnly ==
    [][\A s \in Starts :
          val[s] # 0 =>
              /\ val'[s] = val[s]
              /\ lastOp' \in {"Check", "CheckAndPanic", "CheckSetErrorAndPanic"}
                     => Errors(s)' = Errors(s)
              /\ (lastOp' = "Validate" /\ Running(s))
                     => /\ Errors(s)' = Errors(s) \o FailedMsgs(log'[s])
                        /\ pc'[s] = "running" => log'[s] = batch'
              /\ SubSeq(Errors(s)', 1, Len(Errors(s))) = Errors(s)
              /\ Len(Errors(s)) > 0
                     => /\ Len(Errors(s)') > 0
                        /\ ~Check(heap', val'[s]).isNil
                        /\ (lastOp' = "Check" /\ Running(s)) => ~ret'[s].isNil]_vars

C16_Witness ==
    /\ tiers = 2
    /\ lastOp = "Validate"
    /\ Running("Literal")
    /\ Len(FailedMsgs(batch)) = 1
    /\ Len(Errors("Literal")) >= 2
    /\ Errors("Literal") = failures["Literal"]
    /\ val["Literal"] = 1

-----------------------------------------------------------------------------
(* The handle the caller keeps, under KeptSpec *)

\* C17: Validate on the nil handle changes nothing the caller holds.  A caller
\* that keeps the handle of Begin() and drops what Validate returns still has
\* the nil handle, and Check on it returns nil whatever failed; the caller that
\* keeps a handle to a Validation gets the failures from Check.
C17_NilHandleKept ==
    /\ val["Begin"] = Begin
    /\ val["Literal"] # 0
    /\ Errors("Begin") = <<>>
    /\ Errors("Literal") = failures["Literal"]
    /\ lastOp = "Check"
           => /\ Running("Begin") => ret["Begin"].isNil
              /\ Running("Literal")
                     => (failures["Literal"] # <<>> <=> ~ret["Literal"].isNil)

C17_Witness ==
    /\ lastOp = "Check"
    /\ Running("Begin")
    /\ failures["Begin"] # <<>>
    /\ val["Begin"] = 0
    /\ ret["Begin"].isNil
    /\ ~ret["Literal"].isNil

-----------------------------------------------------------------------------
(* A checker that panics inside Validate, under Spec *)

\* The place in cs of the first checker that panics, 0 when none does.
FirstPanic(cs) ==
    IF \E i \in 1..Len(cs) : Invoke(cs[i]).panicked
        THEN CHOOSE i \in 1..Len(cs) :
                 /\ Invoke(cs[i]).panicked
                 /\ \A j \in 1..(i - 1) : ~Invoke(cs[j]).panicked
    ELSE 0

\* C18: NotNil of a value that cannot be nil panics when Validate invokes it,
\* not when the batch is put together.  A run faults only in a Validate step,
\* and does so exactly when the batch has such a checker.  The checkers after
\* the first of them are not invoked, the caller gets no handle from Validate
\* and keeps the one it had, so that from the nil handle the failures of the
\* checkers before it are in no Validation the caller holds; and the value
\* of the panic is NotNil's own text, not the validation error.
C18_FaultInterruptsBatch ==
    [][\A s \in Starts :
          /\ (pc[s] = "running" /\ pc'[s] = "faulted") => lastOp' = "Validate"
          /\ (pc[s] = "running" /\ lastOp' = "Validate")
                 => LET k == FirstPanic(batch') IN
                    /\ pc'[s] = "faulted" <=> k # 0
                    /\ k # 0
                           => /\ log'[s] = SubSeq(batch', 1, k)
                              /\ val'[s] = val[s]
                              /\ ret'[s].isNil
                              /\ val[s] = 0 => Errors(s)' = <<>>
                              /\ panicValue'[s] = Errorf(Invoke(batch'[k]).msg)
                              /\ SubSeq(panicValue'[s].text, 1, 28) # "parameter validation failed:"
                              /\ val[s] # 0
                                     => panicValue'[s] # constructErrorMessage(heap', val'[s])]_vars

C18_Witness ==
    /\ pc["Begin"] = "faulted"
    /\ lastOp = "Validate"
    /\ log["Begin"] = batch
    /\ failures["Begin"] # <<>>
    /\ FailedMsgs(log["Begin"]) # <<>>
    /\ val["Begin"] = 0
    /\ panicValue["Begin"].text = "Vala is unable to check this type for nilability at this time."

====
